---- MODULE Spec2Model ----
(***************************************************************************)
(* Model of the manga translation application: AppComponent (file          *)
(* ingestion of .cbz / .pdf documents, the sequential page translation     *)
(* loop, reset) and GeminiService (the translation client).                *)
(*                                                                         *)
(* Strings whose content the code inspects (file names, the context URL,   *)
(* the key input, response texts) are sequences of one-character strings.  *)
(* An optional field (translation?, error?) is <<>> when undefined and     *)
(* <<v>> when it holds v.                                                  *)
(***************************************************************************)
EXTENDS Integers, Sequences, FiniteSets, TLC

\* ---------------------------------------------------------------- bounds
\* Largest number of pages (images of an archive, pages of a PDF) in a file.
MaxPages == 2
\* Number of user operations (file selection, input edits, start, reset).
MaxOps == 4
\* Number of translateAll invocations that can be suspended at once.
MaxRuns == 2
\* Number of handleFile invocations that can be suspended at once.
MaxIngest == 2

\* ------------------------------------------------------- string helpers
None == <<>>
Some(v) == <<v>>

\* String.prototype.toLowerCase on the characters the model uses.
LowerChar(c) ==
    CASE c = "C" -> "c" [] c = "B" -> "b" [] c = "Z" -> "z"
      [] c = "J" -> "j" [] c = "P" -> "p" [] c = "G" -> "g"
      [] c = "D" -> "d" [] c = "F" -> "f"
      [] OTHER -> c

ToLowerCase(s) == [i \in 1..Len(s) |-> LowerChar(s[i])]

RECURSIVE TrimLeft(_)
TrimLeft(s) ==
    IF s # <<>> /\ Head(s) = " " THEN TrimLeft(Tail(s)) ELSE s

RECURSIVE TrimRight(_)
TrimRight(s) ==
    IF s # <<>> /\ s[Len(s)] = " " THEN TrimRight(SubSeq(s, 1, Len(s) - 1)) ELSE s

\* String.prototype.trim
Trim(s) == TrimRight(TrimLeft(s))

RECURSIVE Split(_, _)
\* String.prototype.split(sep) for a one-character separator: the pieces
\* between the separators, in order (one piece when sep does not occur).
Split(s, sep) ==
    IF \E i \in 1..Len(s) : s[i] = sep
    THEN LET i == CHOOSE j \in 1..Len(s) :
                      s[j] = sep /\ \A k \in 1..(j - 1) : s[k] # sep
         IN  <<SubSeq(s, 1, i - 1)>> \o Split(SubSeq(s, i + 1, Len(s)), sep)
    ELSE <<s>>

\* Array.prototype.pop applied to the result of split: the last piece.
Pop(parts) == parts[Len(parts)]

EndsWith(s, suffix) ==
    /\ Len(s) >= Len(suffix)
    /\ SubSeq(s, Len(s) - Len(suffix) + 1, Len(s)) = suffix

\* UTF-16 code unit of the characters that occur in archive entry names;
\* Array.prototype.sort without a comparator orders strings by code unit.
CharCode(c) ==
    CASE c = "." -> 46 [] c = "/" -> 47
      [] c = "0" -> 48 [] c = "1" -> 49 [] c = "2" -> 50 [] c = "3" -> 51
      [] c = "G" -> 71 [] c = "J" -> 74 [] c = "P" -> 80
      [] c = "d" -> 100 [] c = "f" -> 102 [] c = "g" -> 103 [] c = "i" -> 105
      [] c = "n" -> 110 [] c = "p" -> 112 [] c = "t" -> 116 [] c = "x" -> 120
      [] OTHER -> 0

RECURSIVE StringLess(_, _)
\* a < b for strings: the first differing code unit decides, a proper
\* prefix is smaller.
StringLess(a, b) ==
    IF b = <<>> THEN FALSE
    ELSE IF a = <<>> THEN TRUE
    ELSE IF CharCode(Head(a)) # CharCode(Head(b))
         THEN CharCode(Head(a)) < CharCode(Head(b))
         ELSE StringLess(Tail(a), Tail(b))

RECURSIVE InsertSorted(_, _)
InsertSorted(x, s) ==
    IF s = <<>> THEN <<x>>
    ELSE IF StringLess(Head(s), x) \/ Head(s) = x
         THEN <<Head(s)>> \o InsertSorted(x, Tail(s))
         ELSE <<x>> \o s

RECURSIVE Sort(_)
\* Array.prototype.sort(): ascending by code unit.
Sort(s) == IF s = <<>> THEN <<>> ELSE InsertSorted(Head(s), Sort(Tail(s)))

\* The decimal digit of a small number, as template strings print it.
DigitChar(i) == <<"0", "1", "2", "3", "4", "5", "6", "7", "8", "9">>[i + 1]

\* ------------------------------------------------------------- documents
\* A File the user can select: its name and, as its content, the number of
\* images (archive) or pages (PDF) it holds.
NoFile == [name |-> <<>>, n |-> 0]

CbzFile(n) == [name |-> <<"b", DigitChar(n), ".", "C", "B", "Z">>, n |-> n]
PdfFile(n) == [name |-> <<"d", DigitChar(n), ".", "p", "d", "f">>, n |-> n]
TxtFile == [name |-> <<"t", ".", "t", "x", "t">>, n |-> 0]

UploadFiles ==
    {CbzFile(n) : n \in {0, MaxPages}} \cup {PdfFile(MaxPages)} \cup {TxtFile}

\* Image entries of an archive, in the order the archive stores them.
ImageEntryNames ==
    << <<"2", ".", "p", "n", "g">>,
       <<"1", "0", ".", "J", "P", "G">>,
       <<"1", ".", "p", "n", "g">>,
       <<"3", ".", "g", "i", "f">> >>

\* zip.files of the archive held by file f: a directory, f.n images and an
\* entry that is no image.
ZipFiles(f) ==
    << [name |-> <<"d", "/">>, dir |-> TRUE] >>
    \o [i \in 1..f.n |-> [name |-> ImageEntryNames[i], dir |-> FALSE]]
    \o << [name |-> <<"n", ".", "t", "x", "t">>, dir |-> FALSE] >>

ImageSuffixes ==
    { <<".", "j", "p", "g">>, <<".", "j", "p", "e", "g">>, <<".", "p", "n", "g">>,
      <<".", "g", "i", "f">>, <<".", "w", "e", "b", "p">> }

\* /\.(jpe?g|png|gif|webp)$/i.test(name)
IsImageName(name) == \E suf \in ImageSuffixes : EndsWith(ToLowerCase(name), suf)

RECURSIVE FilterImages(_)
FilterImages(entries) ==
    IF entries = <<>> THEN <<>>
    ELSE (IF ~Head(entries).dir /\ IsImageName(Head(entries).name)
          THEN <<Head(entries).name>> ELSE <<>>) \o FilterImages(Tail(entries))

\* The image names in the order the archive stores them.
ImageFilesUnsorted(f) == FilterImages(ZipFiles(f))

\* Object.keys(zip.files).filter(...).sort()
ImageFiles(f) == Sort(FilterImages(ZipFiles(f)))

\* file.name.toLowerCase().split('.').pop()
FileExtension(f) == Pop(Split(ToLowerCase(f.name), "."))

\* `page_${i}.png`
PdfPageName(i) == <<"p", "a", "g", "e", "_", DigitChar(i), ".", "p", "n", "g">>

\* A Page as handleCbz / handlePdf create it.
NewPage(pageNum, name, f) ==
    [pageNum |-> pageNum,
     file |-> [name |-> name, blob |-> f.name],
     translation |-> None,
     isTranslating |-> FALSE,
     error |-> None]

\* ---------------------------------------------------- translation client
\* What models.generateContent does with one request: it resolves with a
\* response that carries text, resolves with a response without text,
\* rejects with an 'API key not valid' error, or rejects with another error.
ServiceOutcomes == {"text", "noText", "keyError", "otherError"}

\* The service rejects every request made with a key that is not valid and
\* none for that reason when the key is valid.
OutcomesFor(valid) ==
    IF valid THEN ServiceOutcomes \ {"keyError"} ELSE {"keyError"}

\* A response in the requested format: an original line, a blank line, the
\* translated line.
ResponseText == <<"E", "\n", " ", "\n", "V">>
\* "Translation failed: The provided API key is invalid. ..."
InvalidKeyText == <<"K">>
\* `Translation failed. Please check the console for details. Error: ...`
FailedText == <<"F">>

NotInitializedMessage == "Gemini AI client is not initialized. Check API Key."
SplitTypeErrorMessage == "Cannot read properties of undefined (reading 'split')"

\* GeminiService.translateMangaPage: what the caller's await observes.
\* threw: the promise rejected; text: the string it resolved with, None
\* when response.text is undefined.
TranslateMangaPage(client, outcome) ==
    IF ~client
    THEN [threw |-> TRUE, message |-> NotInitializedMessage, text |-> None]
    ELSE CASE outcome = "text" ->
                [threw |-> FALSE, message |-> "", text |-> Some(ResponseText)]
           [] outcome = "noText" ->
                [threw |-> FALSE, message |-> "", text |-> None]
           [] outcome = "keyError" ->
                [threw |-> FALSE, message |-> "", text |-> Some(InvalidKeyText)]
           [] OTHER ->
                [threw |-> FALSE, message |-> "", text |-> Some(FailedText)]

RECURSIVE NonBlankLines(_)
\* .filter(line => line.trim() !== '')
NonBlankLines(lines) ==
    IF lines = <<>> THEN <<>>
    ELSE (IF Trim(Head(lines)) # <<>> THEN <<Head(lines)>> ELSE <<>>)
         \o NonBlankLines(Tail(lines))

\* resultText.split('\n').filter(line => line.trim() !== '')
TranslationLines(text) == NonBlankLines(Split(text, "\n"))

\* ------------------------------------------------------------- messages
InvalidFileTypeMessage == "Invalid file type. Please upload a .cbz or .pdf file."
CbzFailedMessage == "Failed to read the .cbz file. It might be corrupted."
PdfUnavailableMessage == "PDF library is not available. Please check your connection."
PdfFailedMessage == "Failed to read the .pdf file. It might be corrupted or protected."
NoPagesMessage == "No pages loaded to translate."
MissingContextUrlMessage == "Please provide a Wikipedia or Fandom URL for context."
MissingCredentialMessage == "API Key is not configured. Cannot translate."
EnterKeyMessage == "Please enter a key to proceed."
\* `Failed on page ${page.pageNum}. See details above.`
FailedOnPageMessage(n) ==
    <<"Failed on page 1. See details above.", "Failed on page 2. See details above.",
      "Failed on page 3. See details above.", "Failed on page 4. See details above.">>[n]

\* ----------------------------------------------------------- user inputs
TranslationModes == {"short", "full", "bold", "in-depth"}
\* Values typed into the context URL field and into the key field.
WikiUrlInputs == { <<>>, <<" ">>, <<" ", "w", " ">> }
ApiKeyInputs == { <<" ">>, <<"k">> }
ModeInputs == {"short"}

\* ------------------------------------------------------------------ state
VARIABLES
    status,               \* AppComponent.status
    uploadedFile,         \* AppComponent.uploadedFile (NoFile for null)
    fileName,             \* AppComponent.fileName
    pages,                \* AppComponent.pages, the Page Store
    totalPageCount,       \* AppComponent.totalPageCount
    translatedPageCount,  \* AppComponent.translatedPageCount
    wikiUrl,              \* AppComponent.wikiUrl
    translationMode,      \* AppComponent.translationMode
    isApiKeyModalVisible, \* AppComponent.isApiKeyModalVisible
    apiKeyInput,          \* AppComponent.apiKeyInput
    errorMessage,         \* AppComponent.errorMessage
    genAI,                \* GeminiService.genAI is not null
    keyValid,             \* the service accepts the key of process.env.API_KEY
    apiKeySignal,         \* GeminiService.apiKeySignal() is not ''
    ingests,              \* the suspended handleFile invocations
    runs,                 \* the translateAll invocations
    clientInvoked,        \* translateMangaPage has been called
    orphanedPreviewUrl,   \* a discarded page's preview URL is not revoked
    received,             \* what a direct caller of the client got back
    ops                   \* number of user operations so far

vars == <<status, uploadedFile, fileName, pages, totalPageCount,
          translatedPageCount, wikiUrl, translationMode, isApiKeyModalVisible,
          apiKeyInput, errorMessage, genAI, keyValid, apiKeySignal, ingests,
          runs, clientInvoked, orphanedPreviewUrl, received, ops>>

\* The fields of the component that no asynchronous step writes.
inputVars == <<wikiUrl, translationMode, isApiKeyModalVisible, apiKeyInput>>
\* The environment fixed at startup.
envVars == <<genAI, keyValid, apiKeySignal>>

\* Everything but the count of operations.
programVars == <<status, uploadedFile, fileName, pages, totalPageCount,
                 translatedPageCount, wikiUrl, translationMode,
                 isApiKeyModalVisible, apiKeyInput, errorMessage, ingests, runs,
                 clientInvoked>>

IngestIds == 1..MaxIngest
RunIds == 1..MaxRuns

IdleIngest == [pc |-> "idle", file |-> NoFile]

IdleRun ==
    [pc |-> "idle", pagesToTranslate |-> <<>>, idx |-> 0, url |-> <<>>,
     mode |-> "in-depth", call |-> None, failed |-> {}, outlived |-> FALSE]

\* The state after the services and the component are constructed. The key
\* is read from the environment once: with a key the client exists and the
\* constructor's effect hides the key dialog.
Init ==
    /\ status = "idle"
    /\ uploadedFile = NoFile
    /\ fileName = <<>>
    /\ pages = <<>>
    /\ totalPageCount = 0
    /\ translatedPageCount = 0
    /\ wikiUrl = <<>>
    /\ translationMode = "in-depth"
    /\ genAI \in BOOLEAN
    /\ keyValid \in {v \in BOOLEAN : v => genAI}
    /\ apiKeySignal = genAI
    /\ isApiKeyModalVisible = ~apiKeySignal
    /\ apiKeyInput = <<>>
    /\ errorMessage = ""
    /\ ingests = [t \in IngestIds |-> IdleIngest]
    /\ runs = [r \in RunIds |-> IdleRun]
    /\ clientInvoked = FALSE
    /\ orphanedPreviewUrl = FALSE
    /\ received = None
    /\ ops = 0

\* ------------------------------------------------------------ Page Store
\* currentPages.map(p => p.pageNum === n ? {...p, isTranslating: true,
\*                                           error: undefined} : p)
MarkTranslating(ps, n) ==
    [k \in 1..Len(ps) |->
        IF ps[k].pageNum = n
        THEN [ps[k] EXCEPT !.isTranslating = TRUE, !.error = None]
        ELSE ps[k]]

\* currentPages.map(p => p.pageNum === n ? {...p, isTranslating: false,
\*                                           translation: lines} : p)
SetTranslation(ps, n, lines) ==
    [k \in 1..Len(ps) |->
        IF ps[k].pageNum = n
        THEN [ps[k] EXCEPT !.isTranslating = FALSE, !.translation = Some(lines)]
        ELSE ps[k]]

\* currentPages.map(p => p.pageNum === n ? {...p, isTranslating: false,
\*                                           error: message} : p)
SetError(ps, n, message) ==
    [k \in 1..Len(ps) |->
        IF ps[k].pageNum = n
        THEN [ps[k] EXCEPT !.isTranslating = FALSE, !.error = Some(message)]
        ELSE ps[k]]

\* ------------------------------------------------------- user operations
\* A user operation is counted, up to MaxOps, when it changes the state.
CanOperate == ops < MaxOps
Operated == programVars' # programVars /\ ops' = ops + 1

FreeIngests == {t \in IngestIds : ingests[t].pc = "idle"}
FreeRuns == {r \in RunIds : runs[r].pc = "idle"}
Lowest(S) == CHOOSE x \in S : \A y \in S : x <= y

\* The template's bindings that write the input signals.
SetWikiUrl(u) ==
    /\ CanOperate
    /\ wikiUrl # u
    /\ wikiUrl' = u
    /\ UNCHANGED <<status, uploadedFile, fileName, pages, totalPageCount,
                   translatedPageCount, translationMode, isApiKeyModalVisible,
                   apiKeyInput, errorMessage, envVars, received,
                   orphanedPreviewUrl, ingests, runs, clientInvoked>>
    /\ Operated

SetTranslationMode(m) ==
    /\ CanOperate
    /\ translationMode # m
    /\ translationMode' = m
    /\ UNCHANGED <<status, uploadedFile, fileName, pages, totalPageCount,
                   translatedPageCount, wikiUrl, isApiKeyModalVisible,
                   apiKeyInput, errorMessage, envVars, received,
                   orphanedPreviewUrl, ingests, runs, clientInvoked>>
    /\ Operated

\* The key field and its save button exist only inside the key dialog, which
\* the template renders while isApiKeyModalVisible() holds.
SetApiKeyInput(k) ==
    /\ CanOperate
    /\ isApiKeyModalVisible
    /\ apiKeyInput # k
    /\ apiKeyInput' = k
    /\ UNCHANGED <<status, uploadedFile, fileName, pages, totalPageCount,
                   translatedPageCount, wikiUrl, translationMode,
                   isApiKeyModalVisible, errorMessage, envVars, received,
                   orphanedPreviewUrl, ingests, runs, clientInvoked>>
    /\ Operated

\* AppComponent.saveApiKey
SaveApiKey ==
    /\ CanOperate
    /\ isApiKeyModalVisible
    /\ IF Trim(apiKeyInput) # <<>>
       THEN /\ isApiKeyModalVisible' = FALSE
            /\ UNCHANGED errorMessage
       ELSE /\ errorMessage' = EnterKeyMessage
            /\ UNCHANGED isApiKeyModalVisible
    /\ UNCHANGED <<status, uploadedFile, fileName, pages, totalPageCount,
                   translatedPageCount, wikiUrl, translationMode, apiKeyInput,
                   envVars, received, orphanedPreviewUrl, ingests, runs,
                   clientInvoked>>
    /\ Operated

\* Every page holds the object URL that URL.createObjectURL(blob) made for
\* its previewUrl, and no statement of the program revokes an object URL:
\* when pages.set replaces the Page Store, the URLs of the pages it held stay
\* in the document's URL store.
PagesReplaced == orphanedPreviewUrl \/ pages # <<>>

\* The runs after the session they started in is discarded: reset cancels
\* nothing, a run in flight goes on and is noted as outliving its session.
SessionDiscarded ==
    [r \in RunIds |->
        IF runs[r].pc = "await" THEN [runs[r] EXCEPT !.outlived = TRUE]
        ELSE runs[r]]

\* reset leaving the context URL and the mode as they are.
ResetKeepsInputs ==
    /\ CanOperate
    /\ status' = "idle"
    /\ uploadedFile' = NoFile
    /\ fileName' = <<>>
    /\ pages' = <<>>
    /\ totalPageCount' = 0
    /\ translatedPageCount' = 0
    /\ errorMessage' = ""
    /\ runs' = SessionDiscarded
    /\ orphanedPreviewUrl' = PagesReplaced
    /\ UNCHANGED <<wikiUrl, translationMode, isApiKeyModalVisible, apiKeyInput,
                   envVars, received, ingests, clientInvoked>>
    /\ Operated

\* AppComponent.reset
Reset ==
    /\ CanOperate
    /\ status' = "idle"
    /\ uploadedFile' = NoFile
    /\ fileName' = <<>>
    /\ pages' = <<>>
    /\ totalPageCount' = 0
    /\ translatedPageCount' = 0
    /\ wikiUrl' = <<>>
    /\ translationMode' = "in-depth"
    /\ errorMessage' = ""
    /\ runs' = SessionDiscarded
    /\ orphanedPreviewUrl' = PagesReplaced
    /\ UNCHANGED <<isApiKeyModalVisible, apiKeyInput, envVars, received,
                   ingests, clientInvoked>>
    /\ Operated

\* AppComponent.handleFile, called by onDrop / onFileSelected, up to its
\* first await: reset(), then the dispatch on the extension. handleCbz
\* suspends at JSZip.loadAsync, handlePdf at the loading task's promise.
\* pdfjsLib says whether the PDF library's global is defined at this moment
\* (the library is a script loaded from a CDN).
HandleFile(f, pdfjsLib) ==
    /\ CanOperate
    /\ uploadedFile' = f
    /\ fileName' = f.name
    /\ pages' = <<>>
    /\ totalPageCount' = 0
    /\ translatedPageCount' = 0
    /\ wikiUrl' = <<>>
    /\ translationMode' = "in-depth"
    /\ LET t == IF FreeIngests = {} THEN 1 ELSE Lowest(FreeIngests)
           ext == FileExtension(f)
       IN  IF ext = <<"c", "b", "z">>
           THEN /\ FreeIngests # {}
                /\ status' = "loading-file"
                /\ errorMessage' = ""
                /\ ingests' = [ingests EXCEPT ![t] =
                                  [IdleIngest EXCEPT !.pc = "loadAsync", !.file = f]]
           ELSE IF ext = <<"p", "d", "f">>
           THEN IF ~pdfjsLib
                THEN /\ status' = "error"
                     /\ errorMessage' = PdfUnavailableMessage
                     /\ UNCHANGED ingests
                ELSE /\ FreeIngests # {}
                     /\ status' = "loading-file"
                     /\ errorMessage' = ""
                     /\ ingests' = [ingests EXCEPT ![t] =
                                       [IdleIngest EXCEPT !.pc = "getDocument", !.file = f]]
           ELSE /\ status' = "error"
                /\ errorMessage' = InvalidFileTypeMessage
                /\ UNCHANGED ingests
    /\ runs' = SessionDiscarded
    /\ orphanedPreviewUrl' = PagesReplaced
    /\ UNCHANGED <<isApiKeyModalVisible, apiKeyInput, envVars, received,
                   clientInvoked>>
    /\ Operated

\* ------------------------------------------------------ archive ingestion
\* Between two awaits of an extraction loop handleCbz and handlePdf touch
\* only their local extractedPages, so the awaits of one loop are taken as
\* one step: the loop runs to its end, or one of its awaits rejects.

\* The catch block of handleCbz.
CbzCatch(t) ==
    /\ status' = "error"
    /\ errorMessage' = CbzFailedMessage
    /\ ingests' = [ingests EXCEPT ![t] = IdleIngest]
    /\ UNCHANGED <<pages, totalPageCount>>

\* JSZip.loadAsync resolved: filter and sort the entry names, fail on an
\* archive without images, else record the count and enter the loop.
CbzLoadResolved(t) ==
    /\ ingests[t].pc = "loadAsync"
    /\ LET imageFiles == ImageFiles(ingests[t].file)
       IN  IF Len(imageFiles) = 0
           THEN CbzCatch(t)
           ELSE /\ totalPageCount' = Len(imageFiles)
                /\ ingests' = [ingests EXCEPT ![t].pc = "blob"]
                /\ UNCHANGED <<status, errorMessage, pages>>
    /\ UNCHANGED <<uploadedFile, fileName, translatedPageCount, inputVars,
                   envVars, received, orphanedPreviewUrl, runs, clientInvoked,
                   ops>>

\* JSZip.loadAsync rejected (the file is no readable archive).
CbzLoadRejected(t) ==
    /\ ingests[t].pc = "loadAsync"
    /\ CbzCatch(t)
    /\ UNCHANGED <<uploadedFile, fileName, translatedPageCount, inputVars,
                   envVars, received, orphanedPreviewUrl, runs, clientInvoked,
                   ops>>

\* The pages the loop of handleCbz pushes: one per image name, numbered by
\* the counter pageNum from 1.
CbzExtractedPages(f) ==
    LET imageFiles == ImageFiles(f)
    IN  [k \in 1..Len(imageFiles) |-> NewPage(k, imageFiles[k], f)]

\* Every imageFile.async('blob') resolved: publish the pages.
CbzBlobsResolved(t) ==
    /\ ingests[t].pc = "blob"
    /\ pages' = CbzExtractedPages(ingests[t].file)
    /\ orphanedPreviewUrl' = PagesReplaced
    /\ status' = "file-loaded"
    /\ ingests' = [ingests EXCEPT ![t] = IdleIngest]
    /\ UNCHANGED <<uploadedFile, fileName, totalPageCount, translatedPageCount,
                   errorMessage, inputVars, envVars, received, runs,
                   clientInvoked, ops>>

\* An imageFile.async('blob') rejected (a damaged entry).
CbzBlobRejected(t) ==
    /\ ingests[t].pc = "blob"
    /\ CbzCatch(t)
    /\ UNCHANGED <<uploadedFile, fileName, translatedPageCount, inputVars,
                   envVars, received, orphanedPreviewUrl, runs, clientInvoked,
                   ops>>

\* ---------------------------------------------------------- PDF ingestion
\* The catch block of handlePdf.
PdfCatch(t) ==
    /\ status' = "error"
    /\ errorMessage' = PdfFailedMessage
    /\ ingests' = [ingests EXCEPT ![t] = IdleIngest]
    /\ UNCHANGED <<pages, totalPageCount>>

\* loadingTask.promise resolved: record numPages and enter the loop.
PdfDocumentResolved(t) ==
    /\ ingests[t].pc = "getDocument"
    /\ totalPageCount' = ingests[t].file.n
    /\ ingests' = [ingests EXCEPT ![t].pc = "getPage"]
    /\ UNCHANGED <<uploadedFile, fileName, pages, status, translatedPageCount,
                   errorMessage, inputVars, envVars, received,
                   orphanedPreviewUrl, runs, clientInvoked, ops>>

\* loadingTask.promise rejected (damaged or protected document).
PdfDocumentRejected(t) ==
    /\ ingests[t].pc = "getDocument"
    /\ PdfCatch(t)
    /\ UNCHANGED <<uploadedFile, fileName, translatedPageCount, inputVars,
                   envVars, received, orphanedPreviewUrl, runs, clientInvoked,
                   ops>>

RECURSIVE PdfExtractedPages(_, _, _)
\* The pages the loop of handlePdf pushes from page i on: page i is pushed,
\* with pageNum i, only when its canvas gave a 2d context and a blob.
PdfExtractedPages(f, drawn, i) ==
    IF i > f.n THEN <<>>
    ELSE (IF i \in drawn THEN <<NewPage(i, PdfPageName(i), f)>> ELSE <<>>)
         \o PdfExtractedPages(f, drawn, i + 1)

\* Every getPage, render and toBlob of the loop settled without rejecting;
\* drawn is the set of pages whose getContext('2d') and toBlob gave a value.
PdfPagesDone(t, drawn) ==
    /\ ingests[t].pc = "getPage"
    /\ pages' = PdfExtractedPages(ingests[t].file, drawn, 1)
    /\ orphanedPreviewUrl' = PagesReplaced
    /\ status' = "file-loaded"
    /\ ingests' = [ingests EXCEPT ![t] = IdleIngest]
    /\ UNCHANGED <<uploadedFile, fileName, totalPageCount, translatedPageCount,
                   errorMessage, inputVars, envVars, received, runs,
                   clientInvoked, ops>>

\* getPage or render rejected.
PdfPageRejected(t) ==
    /\ ingests[t].pc = "getPage"
    /\ PdfCatch(t)
    /\ UNCHANGED <<uploadedFile, fileName, translatedPageCount, inputVars,
                   envVars, received, orphanedPreviewUrl, runs, clientInvoked,
                   ops>>

\* ------------------------------------------------------------ translation
\* StartGuard without the test of the key.
StartGuardKeyUnchecked(ps, url, key) ==
    IF Len(ps) = 0 THEN NoPagesMessage
    ELSE IF url = <<>> THEN MissingContextUrlMessage
    ELSE ""

\* StartGuard without the test of the URL.
StartGuardUrlUnchecked(ps, url, key) ==
    IF Len(ps) = 0 THEN NoPagesMessage
    ELSE IF ~key THEN MissingCredentialMessage
    ELSE ""

\* The three guards of translateAll, in the order the code tests them: the
\* message of the first unmet one, "" when all are met.
StartGuard(ps, url, key) ==
    IF Len(ps) = 0 THEN NoPagesMessage
    ELSE IF url = <<>> THEN MissingContextUrlMessage
    ELSE IF ~key THEN MissingCredentialMessage
    ELSE ""

\* TranslateAllRejected discarding the pages as well.
TranslateAllRejectedClearsPages ==
    /\ CanOperate
    /\ LET message == StartGuard(pages, Trim(wikiUrl), apiKeySignal)
       IN  /\ message # ""
           /\ status' = "error"
           /\ errorMessage' = message
           /\ isApiKeyModalVisible' =
                 IF message = MissingCredentialMessage THEN TRUE
                 ELSE isApiKeyModalVisible
    /\ pages' = <<>>
    /\ UNCHANGED <<uploadedFile, fileName, totalPageCount, translatedPageCount,
                   wikiUrl, translationMode, apiKeyInput, envVars, received,
                   orphanedPreviewUrl, ingests, runs, clientInvoked>>
    /\ Operated

\* translateAll returning early from an unmet guard.
TranslateAllRejected ==
    /\ CanOperate
    /\ LET message == StartGuard(pages, Trim(wikiUrl), apiKeySignal)
       IN  /\ message # ""
           /\ status' = "error"
           /\ errorMessage' = message
           /\ isApiKeyModalVisible' =
                 IF message = MissingCredentialMessage THEN TRUE
                 ELSE isApiKeyModalVisible
    /\ UNCHANGED <<uploadedFile, fileName, pages, totalPageCount,
                   translatedPageCount, wikiUrl, translationMode, apiKeyInput,
                   envVars, received, orphanedPreviewUrl, ingests, runs,
                   clientInvoked>>
    /\ Operated

\* const pagesToTranslate = this.pages(): of the pages it holds the loop
\* reads pageNum and file only.
PagesToTranslate(ps) ==
    [k \in 1..Len(ps) |-> [pageNum |-> ps[k].pageNum, file |-> ps[k].file]]

\* The arguments of translateMangaPage(page.file, url, mode), with the
\* inputs read anew for the call.
CallArgumentsFromInputs(page, url, mode) ==
    [imageFile |-> page.file, wikiUrl |-> Trim(wikiUrl), mode |-> translationMode]

\* The arguments of translateMangaPage(page.file, url, mode): url and mode
\* are the constants translateAll set before its guards.
CallArguments(page, url, mode) ==
    [imageFile |-> page.file, wikiUrl |-> url, mode |-> mode]

\* translateAll passing its guards, up to its first await: the run records
\* url, mode and the page list, marks the first page and calls the client.
TranslateAllStarted ==
    /\ CanOperate
    /\ FreeRuns # {}
    /\ StartGuard(pages, Trim(wikiUrl), apiKeySignal) = ""
    /\ LET r == Lowest(FreeRuns)
       IN  /\ runs' = [runs EXCEPT ![r] =
                          [pc |-> "await", pagesToTranslate |-> PagesToTranslate(pages),
                           idx |-> 1,
                           url |-> Trim(wikiUrl), mode |-> translationMode,
                           call |-> Some(CallArguments(
                                       pages[1], Trim(wikiUrl), translationMode)),
                           failed |-> {}, outlived |-> FALSE]]
           /\ pages' = MarkTranslating(pages, pages[1].pageNum)
    /\ status' = "translating"
    /\ translatedPageCount' = 0
    /\ errorMessage' = ""
    /\ clientInvoked' = TRUE
    /\ UNCHANGED <<uploadedFile, fileName, totalPageCount, inputVars, envVars,
                   received, orphanedPreviewUrl, ingests>>
    /\ Operated

\* translateAll ending without setting the status.
StatusAfterLastPageUnset == "translating"

\* The status translateAll sets after its loop.
StatusAfterLastPage == "success"

\* The await of translateMangaPage in run r settles, the service having
\* behaved as outcome says: the rest of that loop iteration (the update of
\* the page, or the catch block), then either the next iteration up to its
\* await or the end of translateAll.
TranslateSettled(r, outcome) ==
    /\ runs[r].pc = "await"
    /\ LET run == runs[r]
           page == run.pagesToTranslate[run.idx]
           result == TranslateMangaPage(genAI, outcome)
           caught == result.threw \/ result.text = None
           message == IF result.threw THEN result.message ELSE SplitTypeErrorMessage
           updated == IF caught
                      THEN SetError(pages, page.pageNum, message)
                      ELSE SetTranslation(pages, page.pageNum,
                                          TranslationLines(result.text[1]))
           last == run.idx = Len(run.pagesToTranslate)
           failed == IF outcome = "text" THEN run.failed
                     ELSE run.failed \cup {run.idx}
       IN  /\ translatedPageCount' =
                 IF caught THEN translatedPageCount ELSE translatedPageCount + 1
           /\ errorMessage' =
                 IF caught THEN FailedOnPageMessage(page.pageNum) ELSE errorMessage
           /\ IF last
              THEN /\ pages' = updated
                   /\ status' = StatusAfterLastPage
                   /\ runs' = [runs EXCEPT ![r] = IdleRun]
              ELSE /\ pages' = MarkTranslating(
                                  updated, run.pagesToTranslate[run.idx + 1].pageNum)
                   /\ runs' = [runs EXCEPT
                                  ![r].idx = run.idx + 1,
                                  ![r].call = Some(CallArguments(
                                                 run.pagesToTranslate[run.idx + 1],
                                                 run.url, run.mode)),
                                  ![r].failed = failed]
                   /\ UNCHANGED status
    /\ UNCHANGED <<uploadedFile, fileName, totalPageCount, inputVars, envVars,
                   received, orphanedPreviewUrl, ingests, clientInvoked, ops>>

\* ---------------------------------------------------------- specification
Next ==
    \/ \E u \in WikiUrlInputs : SetWikiUrl(u)
    \/ \E m \in ModeInputs : SetTranslationMode(m)
    \/ \E k \in ApiKeyInputs : SetApiKeyInput(k)
    \/ SaveApiKey
    \/ Reset
    \/ \E f \in UploadFiles : \E pdfjsLib \in BOOLEAN : HandleFile(f, pdfjsLib)
    \/ \E t \in IngestIds : CbzLoadResolved(t)
    \/ \E t \in IngestIds : CbzLoadRejected(t)
    \/ \E t \in IngestIds : CbzBlobsResolved(t)
    \/ \E t \in IngestIds : CbzBlobRejected(t)
    \/ \E t \in IngestIds : PdfDocumentResolved(t)
    \/ \E t \in IngestIds : PdfDocumentRejected(t)
    \/ \E t \in IngestIds : \E drawn \in SUBSET (1..ingests[t].file.n) :
          PdfPagesDone(t, drawn)
    \/ \E t \in IngestIds : PdfPageRejected(t)
    \/ TranslateAllRejected
    \/ TranslateAllStarted
    \/ \E r \in RunIds : \E o \in OutcomesFor(keyValid) : TranslateSettled(r, o)

Spec == Init /\ [][Next]_vars

\* Every outstanding call of the translation client settles.
FairSpec ==
    /\ Init
    /\ [][Next]_vars
    /\ \A r \in RunIds : WF_vars(\E o \in OutcomesFor(keyValid) : TranslateSettled(r, o))

\* --------------------------------------- the translation client by itself
\* The files, URLs and modes a caller can pass to translateMangaPage.
ImageFileInputs ==
    {CbzExtractedPages(CbzFile(MaxPages))[k].file : k \in 1..MaxPages}

\* translateMangaPage called on the service as constructed, with or without
\* a client, and awaited: the caller records what the promise settled with.
ClientTranslate(imageFile, url, mode, outcome) ==
    /\ received' = Some([imageFile |-> imageFile, wikiUrl |-> url, mode |-> mode,
                          result |-> TranslateMangaPage(genAI, outcome)])
    /\ UNCHANGED <<status, uploadedFile, fileName, pages, totalPageCount,
                   translatedPageCount, inputVars, errorMessage, envVars,
                   ingests, runs, clientInvoked, orphanedPreviewUrl, ops>>

ClientNext ==
    \E imageFile \in ImageFileInputs : \E url \in WikiUrlInputs :
       \E mode \in TranslationModes : \E o \in OutcomesFor(keyValid) :
          ClientTranslate(imageFile, url, mode, o)

ClientSpec == Init /\ [][ClientNext]_vars

\* ------------------------------------------------------------ properties
Outstanding == {r \in RunIds : runs[r].pc = "await"}
IsBlank(str) == \A i \in 1..Len(str) : str[i] = " "
HasTranslation(p) == p.translation # None
HasError(p) == p.error # None
Untouched(p) == ~HasTranslation(p) /\ ~HasError(p) /\ ~p.isTranslating
\* A step of translateAll, whichever way it goes.
StartAttempt == TranslateAllRejected \/ TranslateAllStarted

\* C1: when a run over the pages of the Page Store ends and exactly one of
\* its calls failed, status is success, the page of the failed call has an
\* error and no translation lines, and every other page has translation
\* lines and no error.
C1_OneFailedPage ==
    [][\A r \in RunIds : \A o \in ServiceOutcomes :
          LET run == runs[r]
              list == run.pagesToTranslate
              failed == IF o = "text" THEN run.failed ELSE run.failed \cup {run.idx}
          IN  (/\ TranslateSettled(r, o)
               /\ run.idx = Len(list)
               /\ Cardinality(failed) = 1
               /\ PagesToTranslate(pages') = list)
              => /\ status' = "success"
                 /\ \A k \in 1..Len(list) :
                       IF k \in failed
                       THEN HasError(pages'[k]) /\ ~HasTranslation(pages'[k])
                       ELSE HasTranslation(pages'[k]) /\ ~HasError(pages'[k])]_vars

\* C2: a run that entered translating ends, its outstanding calls settling,
\* and it ends only after the call for its last page, with status success.
C2_RunReachesSuccess ==
    /\ \A r \in RunIds :
          (runs[r].pc = "await") ~> (runs[r].pc = "idle" /\ status = "success")
    /\ [][\A r \in RunIds :
             (runs[r].pc = "await" /\ runs'[r].pc = "idle")
             => /\ runs[r].idx = Len(runs[r].pagesToTranslate)
                /\ status' = "success"]_vars

\* A run over several pages has ended although one of its calls threw.
C2_RunEndedWithFailedPage ==
    /\ status = "success"
    /\ Outstanding = {}
    /\ Len(pages) > 1
    /\ \E k \in 1..Len(pages) : HasError(pages[k])
    /\ \E k \in 1..Len(pages) : HasTranslation(pages[k])

\* C3: at most one call of the translation client is outstanding.
C3_OneOutstandingCall == Cardinality(Outstanding) <= 1

\* C4: no page has both translation lines and an error.
C4_TranslationOrError ==
    \A k \in 1..Len(pages) : ~(HasTranslation(pages[k]) /\ HasError(pages[k]))

\* C5: at most one page of the Page Store has isTranslating = true.
C5_OnePageTranslating ==
    Cardinality({k \in 1..Len(pages) : pages[k].isTranslating}) <= 1

C7_BlankUrlMissingContextUrl ==
    [][(IsBlank(wikiUrl) /\ StartAttempt)
       => /\ runs' = runs
          /\ clientInvoked' = clientInvoked
          /\ status' = "error"
          /\ errorMessage' = MissingContextUrlMessage]_vars

\* C7 amended: a start with a blank contextUrl invokes no client call and
\* leaves status error, with the MissingContextUrl failure when the Page
\* Store holds pages and the no-pages failure when it is empty.
C7_BlankUrlRefused ==
    [][(IsBlank(wikiUrl) /\ StartAttempt)
       => /\ runs' = runs
          /\ clientInvoked' = clientInvoked
          /\ status' = "error"
          /\ errorMessage' = IF Len(pages) = 0 THEN NoPagesMessage
                             ELSE MissingContextUrlMessage]_vars

\* A start was refused for a contextUrl of blanks only.
C7_RefusedForBlankUrl ==
    /\ status = "error"
    /\ errorMessage = MissingContextUrlMessage
    /\ wikiUrl = <<" ">>
    /\ pages # <<>>

\* C8: a start attempted with a guard unmet sets status error and leaves
\* the Page Store as it was.
C8_RefusedStartKeepsPages ==
    [][((Len(pages) = 0 \/ IsBlank(wikiUrl) \/ ~apiKeySignal) /\ StartAttempt)
       => /\ status' = "error"
          /\ pages' = pages]_vars

\* A start was refused while the Page Store held pages, which are intact.
C8_RefusedWithPages ==
    /\ status = "error"
    /\ errorMessage \in {MissingContextUrlMessage, MissingCredentialMessage}
    /\ Len(pages) = MaxPages
    /\ \A k \in 1..Len(pages) : Untouched(pages[k])

\* C9: reset leaves an empty Page Store, status idle, an empty contextUrl
\* and the mode in-depth.
C9_ResetClears ==
    [][Reset => /\ pages' = <<>>
                /\ status' = "idle"
                /\ wikiUrl' = <<>>
                /\ translationMode' = "in-depth"]_vars

\* reset was invoked while a run was translating.
C9_ResetWhileTranslating ==
    /\ status = "idle"
    /\ pages = <<>>
    /\ wikiUrl = <<>>
    /\ Outstanding # {}

\* A step in which a file ingestion ends in failure: handleFile refusing
\* the file, or a suspended handleCbz / handlePdf reaching its catch block.
IngestionFails ==
    \/ \E f \in UploadFiles : \E lib \in BOOLEAN :
          HandleFile(f, lib) /\ status' = "error"
    \/ \E t \in IngestIds :
          ingests[t].pc # "idle" /\ ingests'[t].pc = "idle" /\ status' = "error"

\* C10: when a file ingestion ends in failure, status is error and the
\* Page Store is empty.
C10_FailedIngestionLeavesNoPages ==
    [][IngestionFails => (status' = "error" /\ pages' = <<>>)]_vars

SelectsFile == \E f \in UploadFiles : \E lib \in BOOLEAN : HandleFile(f, lib)

\* C11: when the session is reset or replaced by a new file selection, the
\* preview handles of the discarded pages are released: after the step no
\* unrevoked preview URL of a discarded page remains.
C11_PreviewUrlsReleased ==
    [][(Reset \/ SelectsFile) => ~orphanedPreviewUrl']_vars

\* ps holds one page for each entry of the archive in f that is no directory
\* and has an image name, in ascending order of the names, numbered from 1.
PagesOfArchive(f, ps) ==
    LET entries == ZipFiles(f)
        matching == {i \in DOMAIN entries :
                        ~entries[i].dir /\ IsImageName(entries[i].name)}
    IN  /\ Len(ps) = Cardinality(matching)
        /\ {ps[k].file.name : k \in DOMAIN ps} = {entries[i].name : i \in matching}
        /\ \A k \in DOMAIN ps : ps[k].pageNum = k
        /\ \A k \in 1..(Len(ps) - 1) : StringLess(ps[k].file.name, ps[k + 1].file.name)

\* C12: the pages extracted from a valid archive are exactly its entries
\* that are not directories and whose name ends in an image extension,
\* whatever its case, ordered by name ascending and numbered 1..k. This is
\* so of what the extraction gives for the archives of every size (a fact
\* of the function, looked at before the first operation), and of the Page
\* Store whenever it holds the pages of an archive.
C12_ArchivePagesByName ==
    /\ ops = 0
       => \A n \in 0..Len(ImageEntryNames) :
             PagesOfArchive(CbzFile(n), CbzExtractedPages(CbzFile(n)))
    /\ \A n \in 1..MaxPages :
          (pages # <<>> /\ pages[1].file.blob = CbzFile(n).name)
          => PagesOfArchive(CbzFile(n), pages)

\* An archive was loaded whose first page is not its first stored image.
C12_LoadedArchiveReordered ==
    /\ status = "file-loaded"
    /\ FileExtension(uploadedFile) = <<"c", "b", "z">>
    /\ Len(pages) = uploadedFile.n
    /\ Len(pages) > 1
    /\ pages[1].file.name # ImageEntryNames[1]
    /\ \E k \in DOMAIN pages : pages[k].file.name = ImageEntryNames[1]

\* handleCbz opens the archive of invocation t and finds no image in it.
EmptyArchiveOpened(t) ==
    /\ CbzLoadResolved(t)
    /\ \A i \in DOMAIN ZipFiles(ingests[t].file) :
          ZipFiles(ingests[t].file)[i].dir
          \/ ~IsImageName(ZipFiles(ingests[t].file)[i].name)

\* C13: ingesting an archive without a matching image entry fails, and with
\* a failure other than the one of an archive that cannot be opened (the
\* message the catch block sets when JSZip.loadAsync rejects).
C13_EmptyArchiveOwnFailure ==
    [][\A t \in IngestIds :
          EmptyArchiveOpened(t)
          => /\ status' = "error"
             /\ errorMessage' # CbzFailedMessage]_vars

\* handlePdf of invocation t ends its loop and publishes the pages.
PdfPublished(t) ==
    \E drawn \in SUBSET (1..ingests[t].file.n) : PdfPagesDone(t, drawn)

\* C14: when the ingestion of an N-page PDF ends in file-loaded, the Page
\* Store holds N pages and the k-th of them has pageNum k.
C14_PdfPagesContiguous ==
    [][\A t \in IngestIds :
          PdfPublished(t)
          => /\ status' = "file-loaded"
             /\ Len(pages') = ingests[t].file.n
             /\ \A k \in DOMAIN pages' : pages'[k].pageNum = k]_vars

\* C15: every change of status follows the state machine; in particular,
\* once status is success or error only reset or a new file selection
\* changes it, and translating is entered only from file-loaded.
C15_StatusStateMachine ==
    [][/\ (status \in {"success", "error"} /\ status' # status)
          => (Reset \/ SelectsFile)
       /\ (status' = "translating" /\ status # "translating")
          => status = "file-loaded"]_vars

\* C16: whatever the state of the client and whatever the service does,
\* translateMangaPage does not throw: the caller's await yields a value.
C16_ClientNeverThrows ==
    \A k \in DOMAIN received : ~received[k].result.threw

\* C17: every call of one run receives the contextUrl and the mode read
\* when the run started: the first call carries the trimmed URL input and
\* the mode input of that moment, and each later call of the run carries
\* what the call before it carried, whatever the inputs have become.
C17_RunKeepsUrlAndMode ==
    /\ [][\A r \in RunIds :
             (runs[r].pc = "idle" /\ runs'[r].pc = "await")
             => /\ runs'[r].call[1].wikiUrl = Trim(wikiUrl)
                /\ runs'[r].call[1].mode = translationMode]_vars
    /\ [][\A r \in RunIds :
             (runs[r].pc = "await" /\ runs'[r].pc = "await")
             => /\ runs'[r].call[1].wikiUrl = runs[r].call[1].wikiUrl
                /\ runs'[r].call[1].mode = runs[r].call[1].mode]_vars

\* A run has made a later call while an input differs from what it passes.
C17_LaterCallAfterInputChange ==
    \E r \in RunIds :
       /\ runs[r].pc = "await"
       /\ runs[r].idx > 1
       /\ \/ runs[r].call[1].wikiUrl # Trim(wikiUrl)
          \/ runs[r].call[1].mode # translationMode

\* C18: a run in flight when the session is reset or replaced changes
\* nothing afterwards: when a call of such a run settles, the Page Store,
\* status, translatedPageCount and errorMessage stay as they are.
C18_OutlivedRunChangesNothing ==
    [][\A r \in RunIds :
          (runs[r].outlived /\ \E o \in ServiceOutcomes : TranslateSettled(r, o))
          => UNCHANGED <<pages, status, translatedPageCount, errorMessage>>]_vars

\* C19: whenever status is file-loaded with a file recorded as selected,
\* every page of the Page Store was extracted from that file and
\* totalPageCount is the number of pages of that file.
C19_LoadedFromSelectedFile ==
    (status = "file-loaded" /\ uploadedFile # NoFile)
    => /\ \A k \in DOMAIN pages : pages[k].file.blob = uploadedFile.name
       /\ totalPageCount = uploadedFile.n

\* C20: the progress counter never exceeds the number of pages to translate.
C20_ProgressWithinTotal == translatedPageCount <= totalPageCount

====
